---- MODULE Spec2Model ----
(***************************************************************************)
(* R-tree index over 2-D points (Task1/create_rtree.py) with the           *)
(* nearest-neighbour drivers of Task1/Task1.py and the skyline drivers of  *)
(* Task2/Task2.py.                                                         *)
(*                                                                         *)
(* Python objects are modelled as a heap: rtree.nodes is a sequence of     *)
(* node records and a Node reference is an index into it (None is 0).      *)
(* Nodes dropped by a split stay in the heap, as they stay alive in Python *)
(* while insert() still holds them in its local variable v.                *)
(* Coordinates are integers, so distances are compared by their squares.   *)
(***************************************************************************)
EXTENDS Integers, Sequences, FiniteSets

VARIABLES
    dataset,      \* which of the datasets below the run reads its points from
    rtree,        \* the RTree object create_rtree.main is building / has built
    points_list,  \* the points inserted so far, in insertion order
    pc,           \* "build", or the search driver that has run
    results       \* the output of that driver

vars == <<dataset, rtree, points_list, pc, results>>

(***************************************************************************)
(* Bounds of the model.                                                    *)
(***************************************************************************)
\* number of points of a run over the dataset Points
MaxPoints == 5
\* number of points of a run over the dataset PairPoints
MaxPairPoints == 12
\* number of points of a run over the dataset DeepPoints
MaxDeepPoints == 13
\* number of points of a run over the dataset ScenarioPoints
MaxScenarioPoints == 5
\* number of points of a run over the dataset LongPoints
MaxLongPoints == 14
\* largest coordinate of the points dominates is applied to
MaxCoordinate == 2

\* create_rtree.py:5
B == 4
\* sys.maxsize, the initial best value of choose_subtree and split; the
\* model checker's integers are 32 bits wide, and every perimeter of the
\* model is far below either value
sys_maxsize == 2147483647
\* float('inf'), the initial min_distance of the nearest-neighbour search;
\* every distance of the model is below it
inf == 2147483647
\* the None reference to a node
None == 0
\* the None that stands for "no point"
NonePoint == [id |-> 0, x |-> 0, y |-> 0]

\* The datasets: the places a run draws its points from, how many, and the
\* places of the first points of the file where these are fixed.
\* Points: (1,2) dominates (2,1), the other pairs are incomparable; short
\* runs, searched by every driver.
Points == {[x |-> 0, y |-> 0], [x |-> 1, y |-> 2], [x |-> 2, y |-> 1], [x |-> 3, y |-> 3]}
\* PairPoints: (0,2) dominates (3,1); two places after the three points of
\* PairHead; runs long enough for a tree of three levels, searched by every
\* driver.
PairPoints == {[x |-> 0, y |-> 2], [x |-> 3, y |-> 1]}
PairHead == << [x |-> 0, y |-> 2], [x |-> 3, y |-> 1], [x |-> 0, y |-> 2] >>
\* DeepPoints: four places after the seven points of DeepHead; runs long
\* enough for a tree of three levels in which the skyline search leaves
\* subtrees out.
DeepPoints == {[x |-> 0, y |-> 1], [x |-> 1, y |-> 2], [x |-> 2, y |-> 0], [x |-> 3, y |-> 3]}
DeepHead == << [x |-> 1, y |-> 2], [x |-> 1, y |-> 2], [x |-> 1, y |-> 2],
               [x |-> 0, y |-> 1], [x |-> 2, y |-> 0], [x |-> 1, y |-> 2],
               [x |-> 3, y |-> 3] >>
\* LongPoints: two places after the three points of LongHead; runs long
\* enough to split the children of the nodes below the root of a tree of
\* three levels.
LongPoints == {[x |-> 0, y |-> 0], [x |-> 2, y |-> 1]}
LongHead == << [x |-> 0, y |-> 0], [x |-> 0, y |-> 0], [x |-> 0, y |-> 0] >>
\* ScenarioPoints: five places far apart, one split of the root leaf.
ScenarioPoints == {[x |-> 0, y |-> 0], [x |-> 5, y |-> 5], [x |-> 1, y |-> 1],
                   [x |-> 10, y |-> 0], [x |-> 0, y |-> 10]}
datasets == << [places |-> Points, max |-> MaxPoints, head |-> <<>>],
               [places |-> PairPoints, max |-> MaxPairPoints, head |-> PairHead],
               [places |-> DeepPoints, max |-> MaxDeepPoints, head |-> DeepHead],
               [places |-> ScenarioPoints, max |-> MaxScenarioPoints, head |-> <<>>],
               [places |-> LongPoints, max |-> MaxLongPoints, head |-> LongHead] >>
\* the query points of the nearest-neighbour drivers
queries == << [id |-> 1, x |-> 1, y |-> 1], [id |-> 2, x |-> 2, y |-> 2],
              [id |-> 3, x |-> 0, y |-> 3], [id |-> 4, x |-> 3, y |-> 0],
              [id |-> 6, x |-> 3, y |-> 3] >>

(***************************************************************************)
(* Helpers for Python built-ins.                                           *)
(***************************************************************************)
Min(S) == CHOOSE a \in S : \A b \in S : a <= b
Max(S) == CHOOSE a \in S : \A b \in S : a >= b

\* a stable sort, as Python's: less(a, b) is "a sorts before b"
sorted_by(s, less(_, _)) ==
    LET n == Len(s)
        rank(i) == Cardinality({j \in 1..n : \/ less(s[j], s[i])
                                             \/ ~ less(s[i], s[j]) /\ j < i}) + 1
    IN  SubSeq([r \in 1..n |-> s[CHOOSE i \in 1..n : rank(i) = r]], 1, n)

\* sorted(s, key=key), list.sort(key=key)
sorted(s, key(_)) == sorted_by(s, LAMBDA a, b : key(a) < key(b))

\* F(e), with e evaluated once
With(e, F(_)) == CHOOSE r \in {F(v) : v \in {e}} : TRUE

\* list.remove(x): drops the first occurrence
ListRemove(s, x) ==
    LET k == CHOOSE i \in 1..Len(s) : s[i] = x /\ \A j \in 1..(i - 1) : s[j] # x
    IN  SubSeq(s, 1, k - 1) \o SubSeq(s, k + 1, Len(s))

\* 0.4 * B rounded down
MinFillFloor == (4 * B) \div 10

\* math.ceil(0.4 * B)
MinFill == (4 * B + 9) \div 10

(***************************************************************************)
(* class Node                                                              *)
(***************************************************************************)
InitMBR == [x1 |-> -1, y1 |-> -1, x2 |-> -1, y2 |-> -1]

Node == [child_nodes |-> <<>>, data_points |-> <<>>, parent |-> None, MBR |-> InitMBR]

perimeter(n) == (n.MBR.x2 - n.MBR.x1) + (n.MBR.y2 - n.MBR.y1)

is_leaf(n) == Len(n.child_nodes) = 0

\* is_overflow without the test of the children of an internal node
is_overflow_leaf_only(n) ==
    IF is_leaf(n) THEN Len(n.data_points) > B ELSE FALSE

is_overflow(n) ==
    IF is_leaf(n) THEN Len(n.data_points) > B ELSE Len(n.child_nodes) > B

is_root(n) == n.parent = None

(***************************************************************************)
(* class RTree; nodes is the heap, u, v, w are references into it          *)
(***************************************************************************)
RTree == [root |-> 1, nodes |-> <<Node>>]

\* the rectangle update_mbr computes for a node with the given content
new_mbr(nodes, n) ==
    LET x_list == IF is_leaf(n)
                  THEN {n.data_points[i].x : i \in 1..Len(n.data_points)}
                  ELSE {nodes[n.child_nodes[i]].MBR.x1 : i \in 1..Len(n.child_nodes)}
                       \cup {nodes[n.child_nodes[i]].MBR.x2 : i \in 1..Len(n.child_nodes)}
        y_list == IF is_leaf(n)
                  THEN {n.data_points[i].y : i \in 1..Len(n.data_points)}
                  ELSE {nodes[n.child_nodes[i]].MBR.y1 : i \in 1..Len(n.child_nodes)}
                       \cup {nodes[n.child_nodes[i]].MBR.y2 : i \in 1..Len(n.child_nodes)}
    IN  [x1 |-> Min(x_list), y1 |-> Min(y_list), x2 |-> Max(x_list), y2 |-> Max(y_list)]

update_mbr(nodes, u) == [nodes EXCEPT ![u].MBR = new_mbr(nodes, nodes[u])]

add_data_point(nodes, u, p) ==
    LET m == nodes[u].MBR
    IN  [nodes EXCEPT ![u].data_points = Append(@, p),
                      ![u].MBR = [x1 |-> IF p.x < m.x1 THEN p.x ELSE m.x1,
                                  x2 |-> IF p.x > m.x2 THEN p.x ELSE m.x2,
                                  y1 |-> IF p.y < m.y1 THEN p.y ELSE m.y1,
                                  y2 |-> IF p.y > m.y2 THEN p.y ELSE m.y2]]

add_child(nodes, u, child) ==
    LET m == nodes[u].MBR
        c == nodes[child].MBR
    IN  [nodes EXCEPT ![u].child_nodes = Append(@, child),
                      ![child].parent = u,
                      ![u].MBR = [x1 |-> IF c.x1 < m.x1 THEN c.x1 ELSE m.x1,
                                  x2 |-> IF c.x2 > m.x2 THEN c.x2 ELSE m.x2,
                                  y1 |-> IF c.y1 < m.y1 THEN c.y1 ELSE m.y1,
                                  y2 |-> IF c.y2 > m.y2 THEN c.y2 ELSE m.y2]]

peri_increase(n, p) ==
    LET x1 == n.MBR.x1
        x2 == n.MBR.x2
        y1 == n.MBR.y1
        y2 == n.MBR.y2
    IN  (Max({x1, x2, p.x}) - Min({x1, x2, p.x})
         + Max({y1, y2, p.y}) - Min({y1, y2, p.y})) - perimeter(n)

\* the loop of choose_subtree over u.child_nodes[k..], carrying
\* (min_increase, best_child)
RECURSIVE choose_loop(_, _, _, _, _, _)
choose_loop(nodes, u, p, k, min_increase, best_child) ==
    IF k > Len(nodes[u].child_nodes) THEN best_child
    ELSE LET child == nodes[u].child_nodes[k]
             inc == peri_increase(nodes[child], p)
         IN  IF min_increase > inc
             THEN choose_loop(nodes, u, p, k + 1, inc, child)
             ELSE choose_loop(nodes, u, p, k + 1, min_increase, best_child)

choose_subtree(nodes, u, p) ==
    IF is_leaf(nodes[u]) THEN u
    ELSE choose_loop(nodes, u, p, 1, sys_maxsize, None)

\* the sort orders split tries, in the order it tries them
divides(nodes, u) ==
    IF is_leaf(nodes[u])
    THEN << sorted(nodes[u].data_points, LAMBDA dp : dp.x),
            sorted(nodes[u].data_points, LAMBDA dp : dp.y) >>
    ELSE << sorted(nodes[u].child_nodes, LAMBDA c : nodes[c].MBR.x1),
            sorted(nodes[u].child_nodes, LAMBDA c : nodes[c].MBR.x2),
            sorted(nodes[u].child_nodes, LAMBDA c : nodes[c].MBR.y1),
            sorted(nodes[u].child_nodes, LAMBDA c : nodes[c].MBR.y2) >>

\* split_node with the slice divide[i + 1:] for s2
split_node_short(nodes, leaf, divide, lo, hi) ==
    LET from == IF lo > 1 THEN lo + 1 ELSE lo
        s == IF leaf
             THEN [Node EXCEPT !.data_points = SubSeq(divide, from, hi)]
             ELSE [Node EXCEPT !.child_nodes = SubSeq(divide, from, hi)]
    IN  [s EXCEPT !.MBR = new_mbr(nodes, s)]

\* the node s1 (lo = 1, hi = i) or s2 (lo = i + 1, hi = m) split builds from
\* a sort order, with its rectangle recomputed
split_node(nodes, leaf, divide, lo, hi) ==
    LET s == IF leaf
             THEN [Node EXCEPT !.data_points = SubSeq(divide, lo, hi)]
             ELSE [Node EXCEPT !.child_nodes = SubSeq(divide, lo, hi)]
    IN  [s EXCEPT !.MBR = new_mbr(nodes, s)]

\* the candidates of split in the order of its two nested loops
split_candidates(nodes, u) ==
    LET leaf == is_leaf(nodes[u])
        m == IF leaf THEN Len(nodes[u].data_points) ELSE Len(nodes[u].child_nodes)
        positions == (m - MinFill + 1) - MinFill
        cands(ds) ==
            LET count == IF positions > 0 THEN Len(ds) * positions ELSE 0
            IN  SubSeq([k \in 1..count |->
                          LET divide == ds[((k - 1) \div positions) + 1]
                              i == MinFill + ((k - 1) % positions)
                          IN  [s1 |-> split_node(nodes, leaf, divide, 1, i),
                               s2 |-> split_node(nodes, leaf, divide, i + 1, Len(divide))]],
                       1, count)
    IN  With(divides(nodes, u), cands)

\* split_loop that also takes a candidate of the same sum as the best so far
RECURSIVE split_loop_last(_, _, _, _)
split_loop_last(cands, k, best_perimeter, best) ==
    IF k > Len(cands) THEN best
    ELSE LET sum == perimeter(cands[k].s1) + perimeter(cands[k].s2)
         IN  IF best_perimeter >= sum
             THEN split_loop_last(cands, k + 1, sum, cands[k])
             ELSE split_loop_last(cands, k + 1, best_perimeter, best)

\* the loops of split from candidate k on, carrying
\* (best_perimeter, best_s1, best_s2)
RECURSIVE split_loop(_, _, _, _)
split_loop(cands, k, best_perimeter, best) ==
    IF k > Len(cands) THEN best
    ELSE LET sum == perimeter(cands[k].s1) + perimeter(cands[k].s2)
         IN  IF best_perimeter > sum
             THEN split_loop(cands, k + 1, sum, cands[k])
             ELSE split_loop(cands, k + 1, best_perimeter, best)

\* split without its two closing loops
reparent_none(nodes, s, k) == nodes

\* for child in s.child_nodes[k..]: child.parent = s
RECURSIVE reparent(_, _, _)
reparent(nodes, s, k) ==
    IF k > Len(nodes[s].child_nodes) THEN nodes
    ELSE reparent([nodes EXCEPT ![nodes[s].child_nodes[k]].parent = s], s, k + 1)

\* split(u): the two new nodes take the next two heap places; the children
\* they hold are reparented
split(nodes, u) ==
    LET u1 == Len(nodes) + 1
        u2 == Len(nodes) + 2
        place(best) ==
            [u1 |-> u1, u2 |-> u2,
             nodes |-> reparent(reparent(nodes \o <<best.s1, best.s2>>, u1, 1), u2, 1)]
    IN  With(split_loop(split_candidates(nodes, u), 1, sys_maxsize,
                        [s1 |-> Node, s2 |-> Node]), place)

\* handle_overflow that gives the second product of a split below the root
\* to the root, not to the parent w
RECURSIVE handle_overflow_to_root(_, _)
handle_overflow_to_root(t, u) ==
    LET after_split(sp) ==
            IF is_root(sp.nodes[u])
            THEN LET new_root == Len(sp.nodes) + 1
                     n0 == Append(sp.nodes, Node)
                     n1 == add_child(n0, new_root, sp.u1)
                     n2 == add_child(n1, new_root, sp.u2)
                 IN  [root |-> new_root, nodes |-> update_mbr(n2, new_root)]
            ELSE LET w == sp.nodes[u].parent
                     n0 == [sp.nodes EXCEPT ![w].child_nodes = ListRemove(@, u)]
                     n1 == add_child(n0, w, sp.u1)
                     n2 == add_child(n1, t.root, sp.u2)
                     recurse(t2) ==
                         IF is_overflow(t2.nodes[w]) THEN handle_overflow_to_root(t2, w) ELSE t2
                 IN  With([root |-> t.root, nodes |-> n2], recurse)
    IN  With(split(t.nodes, u), after_split)

RECURSIVE handle_overflow(_, _)
handle_overflow(t, u) ==
    LET after_split(sp) ==
            IF is_root(sp.nodes[u])
            THEN LET new_root == Len(sp.nodes) + 1
                     n0 == Append(sp.nodes, Node)
                     n1 == add_child(n0, new_root, sp.u1)
                     n2 == add_child(n1, new_root, sp.u2)
                 IN  [root |-> new_root, nodes |-> update_mbr(n2, new_root)]
            ELSE LET w == sp.nodes[u].parent
                     n0 == [sp.nodes EXCEPT ![w].child_nodes = ListRemove(@, u)]
                     n1 == add_child(n0, w, sp.u1)
                     n2 == add_child(n1, w, sp.u2)
                     recurse(t2) ==
                         IF is_overflow(t2.nodes[w]) THEN handle_overflow(t2, w) ELSE t2
                 IN  With([root |-> t.root, nodes |-> n2], recurse)
    IN  With(split(t.nodes, u), after_split)

\* insert without the update_mbr(v) that follows the recursive call
RECURSIVE insert_without_update(_, _, _)
insert_without_update(t, u, p) ==
    IF is_leaf(t.nodes[u])
    THEN LET check(t1) ==
                 IF is_overflow(t1.nodes[u]) THEN handle_overflow(t1, u) ELSE t1
         IN  With([t EXCEPT !.nodes = add_data_point(t.nodes, u, p)], check)
    ELSE LET descend(v) == insert_without_update(t, v, p)
         IN  With(choose_subtree(t.nodes, u, p), descend)

RECURSIVE insert(_, _, _)
insert(t, u, p) ==
    IF is_leaf(t.nodes[u])
    THEN LET check(t1) ==
                 IF is_overflow(t1.nodes[u]) THEN handle_overflow(t1, u) ELSE t1
         IN  With([t EXCEPT !.nodes = add_data_point(t.nodes, u, p)], check)
    ELSE LET descend(v) ==
                 LET refresh(t1) == [t1 EXCEPT !.nodes = update_mbr(t1.nodes, v)]
                 IN  With(insert(t, v, p), refresh)
         IN  With(choose_subtree(t.nodes, u, p), descend)

\* create_rtree.main(points_list) from point k on
RECURSIVE main_loop(_, _, _)
main_loop(t, points, k) ==
    IF k > Len(points) THEN t
    ELSE LET next(t1) == main_loop(t1, points, k + 1)
         IN  With(insert(t, t.root, points[k]), next)

create_rtree_main(points) == main_loop(RTree, points, 1)

(***************************************************************************)
(* Task1.py: nearest neighbour.  A distance is represented by its square,  *)
(* which orders and identifies distances as the square root does.          *)
(***************************************************************************)
euclidean_distance(point1, point2) ==
    (point2.x - point1.x) * (point2.x - point1.x)
    + (point2.y - point1.y) * (point2.y - point1.y)

\* mbr_min_distance to the farthest side of the rectangle in each dimension
mbr_max_distance(mbr, q) ==
    LET dx == Max({q.x - mbr.x1, 0, mbr.x2 - q.x})
        dy == Max({q.y - mbr.y1, 0, mbr.y2 - q.y})
    IN  dx * dx + dy * dy

mbr_min_distance(mbr, q) ==
    LET dx == Max({mbr.x1 - q.x, 0, q.x - mbr.x2})
        dy == Max({mbr.y1 - q.y, 0, q.y - mbr.y2})
    IN  dx * dx + dy * dy

\* min(distance_points, key=lambda x: x[0])[1]: the first point at the
\* smallest distance
sequential_search(points, q) ==
    LET k == CHOOSE i \in 1..Len(points) :
                 /\ \A j \in 1..Len(points) :
                        euclidean_distance(points[i], q) <= euclidean_distance(points[j], q)
                 /\ \A j \in 1..(i - 1) :
                        euclidean_distance(points[j], q) > euclidean_distance(points[i], q)
    IN  points[k]

\* scan_leaf that takes every point as the nearest so far
scan_leaf_last(data_points, k, q, best) ==
    IF data_points = <<>> THEN best
    ELSE [min_distance |-> euclidean_distance(data_points[Len(data_points)], q),
          nearest_point |-> data_points[Len(data_points)]]

\* the loop over the data points of a leaf from point k on; best is
\* (min_distance, nearest_point)
RECURSIVE scan_leaf(_, _, _, _)
scan_leaf(data_points, k, q, best) ==
    IF k > Len(data_points) THEN best
    ELSE LET distance == euclidean_distance(data_points[k], q)
         IN  IF distance < best.min_distance
             THEN scan_leaf(data_points, k + 1, q,
                            [min_distance |-> distance, nearest_point |-> data_points[k]])
             ELSE scan_leaf(data_points, k + 1, q, best)

\* visit_loop that takes the node to visit from the end of the list
RECURSIVE visit_loop_last(_, _, _, _)
visit_loop_last(nodes, nodes_to_visit, q, best) ==
    IF nodes_to_visit = <<>> THEN best.nearest_point
    ELSE LET node == nodes[nodes_to_visit[Len(nodes_to_visit)]]
             rest == SubSeq(nodes_to_visit, 1, Len(nodes_to_visit) - 1)
             close(child) == mbr_min_distance(nodes[child].MBR, q) < best.min_distance
             continue(b) == visit_loop_last(nodes, rest, q, b)
         IN  IF is_leaf(node)
             THEN With(scan_leaf(node.data_points, 1, q, best), continue)
             ELSE visit_loop_last(nodes, rest \o SelectSeq(node.child_nodes, close), q, best)

\* the while loop of rtree_nearest_neighbor_search
RECURSIVE visit_loop(_, _, _, _)
visit_loop(nodes, nodes_to_visit, q, best) ==
    IF nodes_to_visit = <<>> THEN best.nearest_point
    ELSE LET node == nodes[Head(nodes_to_visit)]
             rest == Tail(nodes_to_visit)
             close(child) == mbr_min_distance(nodes[child].MBR, q) < best.min_distance
             continue(b) == visit_loop(nodes, rest, q, b)
         IN  IF is_leaf(node)
             THEN With(scan_leaf(node.data_points, 1, q, best), continue)
             ELSE visit_loop(nodes, rest \o SelectSeq(node.child_nodes, close), q, best)

\* the search started at the children of the root
rtree_nearest_neighbor_search_below(t, q) ==
    visit_loop(t.nodes, t.nodes[t.root].child_nodes, q,
               [min_distance |-> inf, nearest_point |-> NonePoint])

rtree_nearest_neighbor_search(t, q) ==
    visit_loop(t.nodes, <<t.root>>, q, [min_distance |-> inf, nearest_point |-> NonePoint])

\* a search that takes nodes from the child list of the root itself, not from
\* a list of its own, leaves that list empty
searched_in_place(t) == [t EXCEPT !.nodes[t.root].child_nodes = <<>>]

\* the tree after rtree_nearest_neighbor_search or bbs_skyline_search: the
\* searches assign to their own variables only (min_distance, nearest_point
\* and the new list nodes_to_visit; skyline and the new list L), never to
\* the root or to an attribute of a node
searched(t) == t

\* the truth value Python gives a point or None
truthy(p) == p # NonePoint

\* dc_select with the comparison turned round
dc_select_farther(nearest_left, nearest_right, q) ==
    IF truthy(nearest_left) /\ truthy(nearest_right)
    THEN IF euclidean_distance(nearest_left, q) >= euclidean_distance(nearest_right, q)
         THEN nearest_left
         ELSE nearest_right
    ELSE IF truthy(nearest_left) THEN nearest_left
    ELSE nearest_right

\* the body of the query loop of divide_and_conquer
dc_select(nearest_left, nearest_right, q) ==
    IF truthy(nearest_left) /\ truthy(nearest_right)
    THEN IF euclidean_distance(nearest_left, q) <= euclidean_distance(nearest_right, q)
         THEN nearest_left
         ELSE nearest_right
    ELSE IF truthy(nearest_left) THEN nearest_left
    ELSE nearest_right

\* divide_and_conquer: mindist_points, with the entry of the k-th query at k
divide_and_conquer(points, qs) ==
    LET ordered == sorted(points, LAMBDA pt : pt.x)
        mid_point == Len(ordered) \div 2
        search(trees) ==
            [k \in 1..Len(qs) |->
                dc_select(rtree_nearest_neighbor_search(trees[1], qs[k]),
                          rtree_nearest_neighbor_search(trees[2], qs[k]), qs[k])]
    IN  With(<< create_rtree_main(SubSeq(ordered, 1, mid_point)),
                create_rtree_main(SubSeq(ordered, mid_point + 1, Len(ordered))) >>,
             search)

(***************************************************************************)
(* Task2.py: skyline.                                                      *)
(***************************************************************************)
\* dominates without the test that the two points differ
dominates_or_same(a, b) == a.x <= b.x /\ a.y >= b.y

dominates(a, b) == a.x <= b.x /\ a.y >= b.y /\ (a.x < b.x \/ a.y > b.y)

mindist_to_origin(mbr) == mbr.x1 * mbr.x1 + mbr.y2 * mbr.y2

\* {p['id']: p for p in s}.values(): one entry per id, at the place of the
\* first occurrence, with the value of the last
unique_by_id(s) ==
    LET first(i) == \A j \in 1..(i - 1) : s[j].id # s[i].id
        last(i) == CHOOSE j \in 1..Len(s) :
                       s[j].id = s[i].id /\ \A l \in (j + 1)..Len(s) : s[l].id # s[i].id
        keep == SelectSeq([i \in 1..Len(s) |-> i], first)
    IN  [k \in 1..Len(keep) |-> s[last(keep[k])]]

sequential_scan_skyline(all_points) ==
    LET undominated(point) ==
            ~ \E i \in 1..Len(all_points) : dominates(all_points[i], point)
    IN  sorted_by(unique_by_id(SelectSeq(all_points, undominated)),
                  LAMBDA a, b : a.x < b.x \/ (a.x = b.x /\ -a.y < -b.y))

\* skyline_leaf that keeps the skyline points a new point dominates
RECURSIVE skyline_leaf_keep(_, _, _)
skyline_leaf_keep(data_points, k, skyline) ==
    IF k > Len(data_points) THEN skyline
    ELSE LET point == data_points[k]
         IN  IF ~ \E i \in 1..Len(skyline) : dominates(skyline[i], point)
             THEN skyline_leaf_keep(data_points, k + 1, Append(skyline, point))
             ELSE skyline_leaf_keep(data_points, k + 1, skyline)

\* the loop over the data points of a leaf from point k on
RECURSIVE skyline_leaf(_, _, _)
skyline_leaf(data_points, k, skyline) ==
    IF k > Len(data_points) THEN skyline
    ELSE LET point == data_points[k]
             survives(sky_point) == ~ dominates(point, sky_point)
         IN  IF ~ \E i \in 1..Len(skyline) : dominates(skyline[i], point)
             THEN skyline_leaf(data_points, k + 1, Append(SelectSeq(skyline, survives), point))
             ELSE skyline_leaf(data_points, k + 1, skyline)

\* bbs_open with the corner (x1, y1) of the rectangle
bbs_open_low_corner(nodes, skyline, child) ==
    LET child_mbr_point == [x |-> nodes[child].MBR.x1, y |-> nodes[child].MBR.y1]
    IN  ~ \E i \in 1..Len(skyline) : dominates(skyline[i], child_mbr_point)

\* the test of bbs_skyline_search on a child of an internal node
bbs_open(nodes, skyline, child) ==
    LET child_mbr_point == [x |-> nodes[child].MBR.x1, y |-> nodes[child].MBR.y2]
    IN  ~ \E i \in 1..Len(skyline) : dominates(skyline[i], child_mbr_point)

\* the while loop of bbs_skyline_search; L holds <<mindist, node>>.  The
\* result is the skyline, and with it the record of the children the loop
\* did not push and of the leaves it processed, each with the skyline at
\* that moment.
RECURSIVE bbs_loop(_, _, _, _, _)
bbs_loop(nodes, L, skyline, pruned, leaves) ==
    IF L = <<>> THEN [skyline |-> skyline, pruned |-> pruned, leaves |-> leaves]
    ELSE LET node == nodes[Head(L)[2]]
             rest == Tail(L)
             open(child) == bbs_open(nodes, skyline, child)
             shut(child) == ~ bbs_open(nodes, skyline, child)
             kept == SelectSeq(node.child_nodes, open)
             dropped == SelectSeq(node.child_nodes, shut)
             entries == [i \in 1..Len(kept) |-> <<mindist_to_origin(nodes[kept[i]].MBR), kept[i]>>]
             continue(sky) ==
                 bbs_loop(nodes, rest, sky, pruned,
                          Append(leaves, [node |-> Head(L)[2], skyline |-> skyline]))
         IN  IF is_leaf(node)
             THEN With(skyline_leaf(node.data_points, 1, skyline), continue)
             ELSE bbs_loop(nodes, sorted(rest \o entries, LAMBDA e : e[1]), skyline,
                           pruned \o [i \in 1..Len(dropped) |->
                                         [child |-> dropped[i], skyline |-> skyline]],
                           leaves)

bbs_run(t) ==
    bbs_loop(t.nodes,
             sorted(<< <<mindist_to_origin(t.nodes[t.root].MBR), t.root>> >>, LAMBDA e : e[1]),
             <<>>, <<>>, <<>>)

bbs_skyline_search(t) == bbs_run(t).skyline

divide_dataset(points) ==
    LET sorted_points == sorted(points, LAMBDA pt : pt.x)
        mid_index == Len(sorted_points) \div 2
    IN  << SubSeq(sorted_points, 1, mid_index),
           SubSeq(sorted_points, mid_index + 1, Len(sorted_points)) >>

\* combined_skyline of bbs_divide_and_conquer
combined_skyline(points) ==
    LET search(subspaces) ==
            bbs_skyline_search(create_rtree_main(subspaces[1]))
            \o bbs_skyline_search(create_rtree_main(subspaces[2]))
    IN  With(divide_dataset(points), search)

\* bbs_divide_and_conquer without its final dominance check
bbs_divide_and_conquer_unchecked(points) == combined_skyline(points)

bbs_divide_and_conquer(points) ==
    LET final(combined) ==
            LET undominated(point) ==
                    ~ \E i \in 1..Len(combined) : dominates(combined[i], point)
            IN  SelectSeq(combined, undominated)
    IN  With(combined_skyline(points), final)

(***************************************************************************)
(* The state machine.  A run builds the tree point by point, as the loop   *)
(* of create_rtree.main does, and then runs one of the search drivers on   *)
(* the finished tree and the list of points it was built from.             *)
(***************************************************************************)
Start ==
    /\ rtree = RTree
    /\ points_list = <<>>
    /\ pc = "build"
    /\ results = <<>>

Init == dataset \in {1, 2} /\ Start

InitInsert == dataset \in {3, 5} /\ Start

\* the places of line n + 1 of the file
next_places(d, n) ==
    IF n < Len(datasets[d].head) THEN {datasets[d].head[n + 1]} ELSE datasets[d].places

\* one iteration of the loop of create_rtree.main: rtree.insert(rtree.root, point)
Insert ==
    /\ pc = "build"
    /\ Len(points_list) < datasets[dataset].max
    /\ \E c \in next_places(dataset, Len(points_list)) :
        LET point == [id |-> Len(points_list) + 1, x |-> c.x, y |-> c.y]
        IN  /\ rtree' = insert(rtree, rtree.root, point)
            /\ points_list' = Append(points_list, point)
    /\ UNCHANGED <<dataset, pc, results>>

\* Task1.sequential_search over all queries; min() of an empty list raises
SequentialSearch ==
    /\ pc = "build"
    /\ IF points_list = <<>>
       THEN pc' = "raised" /\ results' = <<>>
       ELSE /\ pc' = "sequential_search"
            /\ results' = [k \in 1..Len(queries) |-> sequential_search(points_list, queries[k])]
    /\ UNCHANGED <<dataset, rtree, points_list>>

\* the query loop of Task1.best_first_search; an entry of NonePoint is a
\* query without an entry in mindist_points
BestFirstSearch ==
    /\ pc = "build"
    /\ pc' = "best_first_search"
    /\ results' = [k \in 1..Len(queries) |-> rtree_nearest_neighbor_search(rtree, queries[k])]
    /\ rtree' = searched(rtree)
    /\ UNCHANGED <<dataset, points_list>>

\* Task1.divide_and_conquer
DivideAndConquer ==
    /\ pc = "build"
    /\ pc' = "divide_and_conquer"
    /\ results' = divide_and_conquer(points_list, queries)
    /\ UNCHANGED <<dataset, rtree, points_list>>

\* Task2.sequential_scan_skyline
SequentialScanSkyline ==
    /\ pc = "build"
    /\ pc' = "sequential_scan_skyline"
    /\ results' = sequential_scan_skyline(points_list)
    /\ UNCHANGED <<dataset, rtree, points_list>>

\* Task2.bbs_skyline_search
BbsSkylineSearch ==
    /\ pc = "build"
    /\ pc' = "bbs_skyline_search"
    /\ results' = bbs_skyline_search(rtree)
    /\ rtree' = searched(rtree)
    /\ UNCHANGED <<dataset, points_list>>

\* Task2.bbs_divide_and_conquer
BbsDivideAndConquer ==
    /\ pc = "build"
    /\ pc' = "bbs_divide_and_conquer"
    /\ results' = bbs_divide_and_conquer(points_list)
    /\ UNCHANGED <<dataset, rtree, points_list>>

Next ==
    \/ Insert
    \/ SequentialSearch
    \/ BestFirstSearch
    \/ DivideAndConquer
    \/ SequentialScanSkyline
    \/ BbsSkylineSearch
    \/ BbsDivideAndConquer

Spec == Init /\ [][Next]_vars

NextInsert == Insert

SpecInsert == InitInsert /\ [][NextInsert]_vars

\* the skyline search of one tree, on the short and the deep files of four
\* places
InitSkyline == dataset \in {1, 3} /\ Start

NextSkyline == Insert \/ BbsSkylineSearch

SpecSkyline == InitSkyline /\ [][NextSkyline]_vars

\* the nearest-neighbour search of one tree, on the file of five places
InitScenario == dataset = 4 /\ Start

NextScenario == Insert \/ BestFirstSearch

SpecScenario == InitScenario /\ [][NextScenario]_vars

\* dominates on the pairs of three points a, b, c
InitDominates ==
    /\ dataset = 0
    /\ rtree = RTree
    /\ points_list \in {<<[id |-> 1, x |-> a[1], y |-> a[2]],
                          [id |-> 2, x |-> b[1], y |-> b[2]],
                          [id |-> 3, x |-> c[1], y |-> c[2]]>> :
                            a \in (0..MaxCoordinate) \X (0..MaxCoordinate),
                            b \in (0..MaxCoordinate) \X (0..MaxCoordinate),
                            c \in (0..MaxCoordinate) \X (0..MaxCoordinate)}
    /\ pc = "points"
    /\ results = <<>>

Dominates ==
    /\ pc = "points"
    /\ pc' = "dominates"
    /\ results' = [aa |-> dominates(points_list[1], points_list[1]),
                   ab |-> dominates(points_list[1], points_list[2]),
                   ba |-> dominates(points_list[2], points_list[1]),
                   bc |-> dominates(points_list[2], points_list[3]),
                   ac |-> dominates(points_list[1], points_list[3])]
    /\ UNCHANGED <<dataset, rtree, points_list>>

NextDominates == Dominates

SpecDominates == InitDominates /\ [][NextDominates]_vars

(***************************************************************************)
(* Properties.                                                             *)
(***************************************************************************)
\* the nodes of the subtree of u
RECURSIVE Subtree(_, _)
Subtree(nodes, u) ==
    {u} \cup UNION {Subtree(nodes, nodes[u].child_nodes[i]) : i \in 1..Len(nodes[u].child_nodes)}

\* the nodes reachable from the root
Reachable == Subtree(rtree.nodes, rtree.root)

\* the number of levels of the subtree of u
RECURSIVE Levels(_, _)
Levels(nodes, u) ==
    IF is_leaf(nodes[u]) THEN 1
    ELSE 1 + Max({Levels(nodes, nodes[u].child_nodes[i]) : i \in 1..Len(nodes[u].child_nodes)})

\* the data points of the leaves of the subtree of u, left to right
RECURSIVE SubtreePoints(_, _, _)
SubtreePoints(nodes, u, k) ==
    IF is_leaf(nodes[u]) THEN nodes[u].data_points
    ELSE IF k > Len(nodes[u].child_nodes) THEN <<>>
    ELSE SubtreePoints(nodes, nodes[u].child_nodes[k], 1) \o SubtreePoints(nodes, u, k + 1)

Range(s) == {s[i] : i \in 1..Len(s)}

Count(s, e) == Cardinality({i \in 1..Len(s) : s[i] = e})

HasContent(n) == Len(n.data_points) + Len(n.child_nodes) > 0

\* C1: after any sequence of insertions every node reachable from the
\* root, the root included, has the rectangle update_mbr would give it.
C1_TightBounding ==
    \A u \in Reachable :
        HasContent(rtree.nodes[u])
            => rtree.nodes[u].MBR = new_mbr(rtree.nodes, rtree.nodes[u])

\* C2: once insert has returned, no node reachable from the root holds more
\* than B data points or more than B children.
C2_FanOutBound ==
    \A u \in Reachable :
        /\ Len(rtree.nodes[u].data_points) <= B
        /\ Len(rtree.nodes[u].child_nodes) <= B

\* an internal node has overflowed and has been split: the tree has three
\* levels, with at least 2 * B nodes
C2_Witness ==
    /\ Levels(rtree.nodes, rtree.root) = 3
    /\ Cardinality(Reachable) >= 2 * B

\* C3: the root has no parent and is nobody's child; every other reachable
\* node is listed exactly once in the child lists of the reachable nodes,
\* and its parent field is the node that lists it.
C3_SingleOwner ==
    LET owners(u) == {e \in Reachable \X (1..(B + 1)) :
                        /\ e[2] <= Len(rtree.nodes[e[1]].child_nodes)
                        /\ rtree.nodes[e[1]].child_nodes[e[2]] = u}
    IN  /\ rtree.nodes[rtree.root].parent = None
        /\ owners(rtree.root) = {}
        /\ \A u \in Reachable \ {rtree.root} :
               /\ Cardinality(owners(u)) = 1
               /\ \A e \in owners(u) : rtree.nodes[u].parent = e[1]

\* a split has moved children to a new internal node below a new root
C3_Witness ==
    \E u \in Reachable :
        /\ u # rtree.root
        /\ ~ is_leaf(rtree.nodes[u])
        /\ rtree.nodes[u].parent = rtree.root
        /\ Len(rtree.nodes[rtree.root].child_nodes) = 2

\* C4: the data points of the leaves reachable from the root are, as a
\* multiset, the points inserted so far.
C4_PointConservation ==
    LET stored == SubtreePoints(rtree.nodes, rtree.root, 1)
    IN  /\ Len(stored) = Len(points_list)
        /\ \A e \in Range(stored) \cup Range(points_list) :
               Count(stored, e) = Count(points_list, e)

\* leaves have been split, and the root replaced, several times over
C4_Witness ==
    /\ Len(points_list) = MaxDeepPoints
    /\ Levels(rtree.nodes, rtree.root) = 3
    /\ Len(SubtreePoints(rtree.nodes, rtree.root, 1)) = MaxDeepPoints

\* C5: the point the tree search returns for a query is an inserted point,
\* and no inserted point is closer to the query.
C5_NearestOptimal ==
    (pc = "best_first_search" /\ points_list # <<>>)
        => \A k \in 1..Len(queries) :
               /\ results[k] \in Range(points_list)
               /\ \A i \in 1..Len(points_list) :
                      euclidean_distance(results[k], queries[k])
                          <= euclidean_distance(points_list[i], queries[k])

\* the search has run on a tree of three levels, and the nearest point of
\* some query is not the first point the search scans
C5_Witness ==
    /\ pc = "best_first_search"
    /\ Levels(rtree.nodes, rtree.root) = 3
    /\ \E k \in 1..Len(queries) :
           results[k] # SubtreePoints(rtree.nodes, rtree.root, 1)[1]

\* C6: the tree search returns, for every query, the very point (the same
\* id) the linear scan of sequential_search returns, ties included.
C6_SameAsSequentialSearch ==
    (pc = "best_first_search" /\ points_list # <<>>)
        => \A k \in 1..Len(queries) :
               results[k] = sequential_search(points_list, queries[k])

\* the points no inserted point dominates
Undominated ==
    {e \in Range(points_list) : ~ \E o \in Range(points_list) : dominates(o, e)}

\* C7: bbs_skyline_search returns exactly the inserted points that no
\* inserted point dominates, each of them once.
C7_SkylineCorrect ==
    pc = "bbs_skyline_search"
        => /\ Range(results) = Undominated
           /\ Len(results) = Cardinality(Undominated)
           /\ \A e \in Range(results) : \A o \in Range(results) : ~ dominates(o, e)

\* the search has left out a subtree of a tree that holds points of four
\* places, and has returned several points, some of them at the same place
C7_Witness ==
    /\ pc = "bbs_skyline_search"
    /\ bbs_run(rtree).pruned # <<>>
    /\ Cardinality({[x |-> e.x, y |-> e.y] : e \in Range(points_list)}) = 4
    /\ \E i \in 1..Len(results) : \E j \in 1..Len(results) :
           i # j /\ results[i].x = results[j].x /\ results[i].y = results[j].y

\* C8: the tree search finds no point exactly when the tree holds none.
C8_NoneIffEmpty ==
    pc = "best_first_search"
        => \A k \in 1..Len(queries) :
               (results[k] = NonePoint) <=> (SubtreePoints(rtree.nodes, rtree.root, 1) = <<>>)

\* the search has run on the tree no point was inserted into
C8_Witness ==
    /\ pc = "best_first_search"
    /\ points_list = <<>>
    /\ \A k \in 1..Len(queries) : results[k] = NonePoint

\* C9: divide_and_conquer finds no point exactly when the search of the one
\* tree of all points finds none, and otherwise a point at the distance of
\* the point that search finds.
C9_DivideAndConquerContract ==
    pc = "divide_and_conquer"
        => \A k \in 1..Len(queries) :
               LET single == rtree_nearest_neighbor_search(rtree, queries[k])
               IN  /\ (results[k] = NonePoint) <=> (single = NonePoint)
                   /\ results[k] # NonePoint
                          => euclidean_distance(results[k], queries[k])
                                 = euclidean_distance(single, queries[k])

\* divide_and_conquer has run on a single point, so that its left half is
\* empty, and has found the point
C9_Witness ==
    /\ pc = "divide_and_conquer"
    /\ Len(points_list) = 1
    /\ \A k \in 1..Len(queries) : results[k] = points_list[1]

\* C10: bbs_divide_and_conquer returns the set of points bbs_skyline_search
\* returns on the one tree of all points.
C10_DivideAndConquerSkyline ==
    pc = "bbs_divide_and_conquer"
        => Range(results) = Range(bbs_skyline_search(rtree))

\* the final dominance check has removed a point of the skyline of one half
C10_Witness ==
    /\ pc = "bbs_divide_and_conquer"
    /\ Len(results) < Len(combined_skyline(points_list))
    /\ Len(results) > 0

\* the five points of the scenario, in the order of their insertion
scenario == << [id |-> 1, x |-> 0, y |-> 0], [id |-> 2, x |-> 5, y |-> 5],
               [id |-> 3, x |-> 1, y |-> 1], [id |-> 4, x |-> 10, y |-> 0],
               [id |-> 5, x |-> 0, y |-> 10] >>

\* C11: after the five insertions of the scenario the root is an internal
\* node with exactly two children, and the search for the query (3, 3) on
\* that tree returns the point with id 3.
C11_Scenario ==
    points_list = scenario
        => /\ ~ is_leaf(rtree.nodes[rtree.root])
           /\ Len(rtree.nodes[rtree.root].child_nodes) = 2
           /\ pc = "best_first_search"
                  => \E k \in 1..Len(queries) :
                         queries[k] = [id |-> 6, x |-> 3, y |-> 3] /\ results[k].id = 3

\* the search has run on the tree of the scenario
C11_Witness ==
    /\ points_list = scenario
    /\ pc = "best_first_search"
    /\ Len(results) = Len(queries)

\* C12: dominates is a strict partial order: no point dominates itself, two
\* points never dominate each other, and if a dominates b and b dominates c
\* then a dominates c.
C12_StrictPartialOrder ==
    pc = "dominates"
        => /\ ~ results.aa
           /\ results.ab => ~ results.ba
           /\ (results.ab /\ results.bc) => results.ac

\* a dominates b, b dominates c, and a and c differ in one coordinate only
C12_Witness ==
    /\ pc = "dominates"
    /\ results.ab /\ results.bc /\ results.ac
    /\ points_list[1].x = points_list[3].x

Holds(r, p) == r.x1 <= p.x /\ p.x <= r.x2 /\ r.y1 <= p.y /\ p.y <= r.y2

\* C14: after an insertion into a tree with an internal root that splits no
\* node, every node on the path from the root, the root included, to the
\* leaf that received the point has the rectangle update_mbr would give it,
\* and the rectangle of the root holds the new point.
C14_PropagationToRoot ==
    [][(Insert /\ ~ is_leaf(rtree.nodes[rtree.root])
               /\ Len(rtree'.nodes) = Len(rtree.nodes))
          => LET p == points_list'[Len(points_list')]
                 nodes == rtree'.nodes
             IN  /\ \A u \in Subtree(nodes, rtree'.root) :
                        p \in Range(SubtreePoints(nodes, u, 1))
                            => nodes[u].MBR = new_mbr(nodes, nodes[u])
                 /\ Holds(nodes[rtree'.root].MBR, p)]_vars

\* C15: after every insertion every node reachable from the root, the root
\* excepted, has the rectangle update_mbr would give it, and this rectangle
\* holds every data point of the subtree of the node.
C15_NonRootTight ==
    \A u \in Reachable \ {rtree.root} :
        /\ rtree.nodes[u].MBR = new_mbr(rtree.nodes, rtree.nodes[u])
        /\ \A p \in Range(SubtreePoints(rtree.nodes, u, 1)) : Holds(rtree.nodes[u].MBR, p)

\* a node below the root has B children: one of its children was split and
\* add_child gave it the two new nodes
C15_Witness ==
    \E u \in Reachable \ {rtree.root} :
        /\ Len(rtree.nodes[u].child_nodes) = B
        /\ rtree.nodes[u].MBR.x1 < rtree.nodes[u].MBR.x2

\* the depths of the leaves of the subtree of u, u itself at depth d
RECURSIVE Depths(_, _, _)
Depths(nodes, u, d) ==
    IF is_leaf(nodes[u]) THEN {d}
    ELSE UNION {Depths(nodes, nodes[u].child_nodes[i], d + 1) : i \in 1..Len(nodes[u].child_nodes)}

\* C16: after every insertion all leaves are at the same depth; an insertion
\* never makes the tree lower, makes it higher by at most one level, and
\* makes it higher only when the root has overflowed and a new root holds
\* the two products of its split.
C16_HeightBalance ==
    [][Insert
          => LET before == Levels(rtree.nodes, rtree.root)
                 after == Levels(rtree'.nodes, rtree'.root)
                 old_root == rtree'.nodes[rtree.root]
                 new_root == rtree'.nodes[rtree'.root]
             IN  /\ Cardinality(Depths(rtree'.nodes, rtree'.root, 1)) = 1
                 /\ before <= after /\ after <= before + 1
                 /\ after = before + 1
                        => /\ rtree'.root # rtree.root
                           /\ Len(old_root.data_points) + Len(old_root.child_nodes) = B + 1
                           /\ Len(new_root.child_nodes) = 2
                           /\ \A i \in 1..2 : new_root.child_nodes[i] > Len(rtree.nodes)
                 /\ rtree'.root # rtree.root => after = before + 1]_vars

\* the internal root of a tree of two levels has been split: the tree has
\* three levels, every leaf at depth three, under a root with two children
C16_Witness ==
    /\ Depths(rtree.nodes, rtree.root, 1) = {3}
    /\ Len(rtree.nodes[rtree.root].child_nodes) = 2

\* the number of entries of a node
Entries(n) == Len(n.data_points) + Len(n.child_nodes)

\* the least integer that is not below 0.4 * B
CeilOfFill == CHOOSE n \in 0..B : 10 * n >= 4 * B /\ 10 * (n - 1) < 4 * B

\* C17: after every insertion every reachable node but the root holds at
\* least ceil(0.4 * B) entries and an internal root at least two children;
\* each of the two nodes a split makes of a node with B + 1 entries holds
\* between ceil(0.4 * B) and B + 1 - ceil(0.4 * B) entries.
C17_MinimumFill ==
    [][Insert
          => LET nodes == rtree'.nodes
                 root == rtree'.root
             IN  /\ CeilOfFill = 2
                 /\ \A u \in Subtree(nodes, root) \ {root} : Entries(nodes[u]) >= CeilOfFill
                 /\ ~ is_leaf(nodes[root]) => Len(nodes[root].child_nodes) >= 2
                 /\ \A u \in (Len(rtree.nodes) + 1)..Len(nodes) :
                        u # root
                            => /\ Entries(nodes[u]) >= CeilOfFill
                               /\ Entries(nodes[u]) <= B + 1 - CeilOfFill]_vars

\* a leaf and an internal node below the root hold ceil(0.4 * B) entries each
C17_Witness ==
    /\ \E u \in Reachable \ {rtree.root} :
           is_leaf(rtree.nodes[u]) /\ Entries(rtree.nodes[u]) = CeilOfFill
    /\ \E u \in Reachable \ {rtree.root} :
           ~ is_leaf(rtree.nodes[u]) /\ Entries(rtree.nodes[u]) = CeilOfFill

\* the entries of a node: its data points or its children
Content(n) == IF is_leaf(n) THEN n.data_points ELSE n.child_nodes

\* the half-perimeter of the tight rectangle of a group of entries
GroupPerimeter(nodes, leaf, group) ==
    LET xs == IF leaf THEN {group[i].x : i \in 1..Len(group)}
              ELSE {nodes[group[i]].MBR.x1 : i \in 1..Len(group)}
                   \cup {nodes[group[i]].MBR.x2 : i \in 1..Len(group)}
        ys == IF leaf THEN {group[i].y : i \in 1..Len(group)}
              ELSE {nodes[group[i]].MBR.y1 : i \in 1..Len(group)}
                   \cup {nodes[group[i]].MBR.y2 : i \in 1..Len(group)}
    IN  (Max(xs) - Min(xs)) + (Max(ys) - Min(ys))

\* the nodes an insertion has split: they had at most B entries before it
\* and stay in the heap with B + 1 entries after it
SplitBy(before, after) ==
    {u \in 1..Len(before) : Entries(before[u]) <= B /\ Entries(after[u]) = B + 1}

\* the two nodes s1 and s2 are the best split of u: their groups are the
\* first candidate, in the order of the axes and then of the positions,
\* whose sum of half-perimeters is the least of all candidates
BestSplit(nodes, u, s1, s2) ==
    LET leaf == is_leaf(nodes[u])
        axes == divides(nodes, u)
        places == {<<a, i>> : a \in 1..Len(axes), i \in CeilOfFill..(B + 1 - CeilOfFill)}
        sum(c) == GroupPerimeter(nodes, leaf, SubSeq(axes[c[1]], 1, c[2]))
                  + GroupPerimeter(nodes, leaf, SubSeq(axes[c[1]], c[2] + 1, B + 1))
        earlier(c, d) == c[1] < d[1] \/ (c[1] = d[1] /\ c[2] < d[2])
    IN  /\ is_leaf(nodes[s1]) = leaf /\ is_leaf(nodes[s2]) = leaf
        /\ \E c \in places :
               /\ \A d \in places : sum(d) >= sum(c) /\ (earlier(d, c) => sum(d) > sum(c))
               /\ Content(nodes[s1]) = SubSeq(axes[c[1]], 1, c[2])
               /\ Content(nodes[s2]) = SubSeq(axes[c[1]], c[2] + 1, B + 1)

\* C18: split of a node with B + 1 entries returns the two groups of the
\* candidate with the least sum of half-perimeters over every axis and
\* every position from ceil(0.4 * B) to B + 1 - ceil(0.4 * B), the first such
\* candidate in the order axis then position, and the two groups hold the
\* entries of the node, each once.
C18_SplitOptimal ==
    [][Insert
          => \A u \in SplitBy(rtree.nodes, rtree'.nodes) :
                 \E s1 \in (Len(rtree.nodes) + 1)..Len(rtree'.nodes) :
                     \E s2 \in (Len(rtree.nodes) + 1)..Len(rtree'.nodes) :
                         /\ s1 # s2
                         /\ BestSplit(rtree'.nodes, u, s1, s2)
                         /\ \A e \in Range(Content(rtree'.nodes[u])) :
                                Count(Content(rtree'.nodes[s1]) \o Content(rtree'.nodes[s2]), e) = 1
                         /\ Entries(rtree'.nodes[s1]) + Entries(rtree'.nodes[s2]) = B + 1]_vars

\* a leaf with points at two places and an internal node have been split, and
\* stay in the heap with their B + 1 entries
C18_Witness ==
    /\ \E u \in 1..Len(rtree.nodes) :
           /\ Len(rtree.nodes[u].data_points) = B + 1
           /\ \E i \in 1..(B + 1) :
                  rtree.nodes[u].data_points[i].x # rtree.nodes[u].data_points[1].x
    /\ \E u \in 1..Len(rtree.nodes) : Len(rtree.nodes[u].child_nodes) = B + 1

\* the children the search can meet: the reachable nodes but the root
Children == Reachable \ {rtree.root}

\* C19: for every child of a reachable node and every query,
\* mbr_min_distance of the rectangle of the child is at most the distance
\* from the query to any point of the subtree of the child, and is 0 when the
\* rectangle holds the query; so whenever the test of the search would
\* decline the child, with any point of the tree as the best so far, no
\* point of its subtree is strictly closer to the query than that point.
C19_PruningSound ==
    \A c \in Children : \A k \in 1..Len(queries) :
        LET q == queries[k]
            bound == mbr_min_distance(rtree.nodes[c].MBR, q)
            below == Range(SubtreePoints(rtree.nodes, c, 1))
        IN  /\ \A p \in below : bound <= euclidean_distance(p, q)
            /\ Holds(rtree.nodes[c].MBR, q) => bound = 0
            /\ \A best \in Range(points_list) :
                   ~ (bound < euclidean_distance(best, q))
                       => \A p \in below :
                              ~ (euclidean_distance(p, q) < euclidean_distance(best, q))

\* the search has run on a tree with a child whose rectangle holds one query
\* and is as far from another query as a point outside its subtree
C19_Witness ==
    /\ pc = "best_first_search"
    /\ \E c \in Children :
           /\ \E k \in 1..Len(queries) : Holds(rtree.nodes[c].MBR, queries[k])
           /\ \E k \in 1..Len(queries) : \E best \in Range(points_list) :
                  /\ best \notin Range(SubtreePoints(rtree.nodes, c, 1))
                  /\ mbr_min_distance(rtree.nodes[c].MBR, queries[k])
                         >= euclidean_distance(best, queries[k])
                  /\ mbr_min_distance(rtree.nodes[c].MBR, queries[k]) > 0

\* no point of the sequence dominates another
Antichain(s) == \A a \in Range(s) : \A b \in Range(s) : ~ dominates(a, b)

\* C20: whenever the skyline search does not push a child, every data point
\* of the subtree of the child is dominated by a point of the skyline of that
\* moment and by a point of the result; and after every point the search
\* processes in a leaf no point of the skyline dominates another.
C20_SkylinePruningSound ==
    pc = "bbs_skyline_search"
        => LET run == bbs_run(rtree)
           IN  /\ run.skyline = results
               /\ \A i \in 1..Len(run.pruned) :
                      \A p \in Range(SubtreePoints(rtree.nodes, run.pruned[i].child, 1)) :
                          /\ \E s \in Range(run.pruned[i].skyline) : dominates(s, p)
                          /\ \E s \in Range(results) : dominates(s, p)
               /\ \A i \in 1..Len(run.leaves) :
                      LET data_points == rtree.nodes[run.leaves[i].node].data_points
                      IN  \A j \in 0..Len(data_points) :
                              Antichain(skyline_leaf(SubSeq(data_points, 1, j), 1,
                                                     run.leaves[i].skyline))

\* the search has not pushed a child with several data points, all of them
\* dominated by one of the several points of the skyline of that moment
C20_Witness ==
    /\ pc = "bbs_skyline_search"
    /\ \E i \in 1..Len(bbs_run(rtree).pruned) :
           /\ Len(SubtreePoints(rtree.nodes, bbs_run(rtree).pruned[i].child, 1)) >= 2
           /\ Len(bbs_run(rtree).pruned[i].skyline) >= 2

====
